---- MODULE Spec2Model ----
(***************************************************************************)
(* jcheck (src/jcheck.go): the command-line selector parsers and the       *)
(* dispatch drivers of main.  Strings are sequences of one-character       *)
(* strings, so that splitting, suffix stripping and integer parsing are    *)
(* computed as the code computes them.                                     *)
(***************************************************************************)
EXTENDS Integers, Sequences, FiniteSets, TLC

VARIABLES
    pc,       \* position of the running function / of main
    fn,       \* parser under study in the single-parser specifications
    arg,      \* its string argument (the raw option value)
    remove,   \* parseMeta's second argument
    loc,      \* the locals of parseMeta's loop (parts, position, res, err)
    ret,      \* its returned (res, err) pair
    flags,    \* the string/bool flags read by getArgs
    args,     \* *jpgArgs as filled in by getArgs
    jpg,      \* the document descriptor returned by jpeg.Read
    err,      \* the err variable of main / of the running driver
    sel,      \* index of the selector being processed in the running driver
    frm,      \* frame loop variable i of the running driver
    calls     \* log of the calls made to the jpeg package, in order

vars == <<pc, fn, arg, remove, loc, ret, flags, args, jpg, err, sel, frm, calls>>

-----------------------------------------------------------------------------
(* Strings *)

\* A string is a sequence of one-character strings.  The characters used are
\* digits, letters and punctuation; "_" (a digit separator for strconv) is not used.

RECURSIVE Split(_, _)
\* strings.Split(s, sep) for a one-character separator
Split(s, sep) ==
    IF s = <<>> THEN << <<>> >>
    ELSE LET r == Split(Tail(s), sep)
         IN  IF Head(s) = sep
             THEN << <<>> >> \o r
             ELSE << <<Head(s)>> \o Head(r) >> \o Tail(r)

DecDigits == <<"0", "1", "2", "3", "4", "5", "6", "7", "8", "9">>
LowerLetters == <<"a", "b", "c", "d", "e", "f", "g", "h", "i", "j", "k", "l", "m",
                  "n", "o", "p", "q", "r", "s", "t", "u", "v", "w", "x", "y", "z">>
UpperLetters == <<"A", "B", "C", "D", "E", "F", "G", "H", "I", "J", "K", "L", "M",
                  "N", "O", "P", "Q", "R", "S", "T", "U", "V", "W", "X", "Y", "Z">>

IndexIn(c, seq) == CHOOSE i \in 1..Len(seq) : seq[i] = c
InSeq(c, seq) == \E i \in 1..Len(seq) : seq[i] = c

\* strconv: the digit value of byte c, -1 when c is no digit and no letter
DigitVal(c) ==
    IF InSeq(c, DecDigits) THEN IndexIn(c, DecDigits) - 1
    ELSE IF InSeq(c, LowerLetters) THEN IndexIn(c, LowerLetters) + 9
    ELSE IF InSeq(c, UpperLetters) THEN IndexIn(c, UpperLetters) + 9
    ELSE -1

RECURSIVE DigitsValue(_, _, _)
\* the digit loop of strconv.ParseUint: -1 on a syntax error
DigitsValue(s, base, n) ==
    IF s = <<>> THEN n
    ELSE LET d == DigitVal(Head(s))
         IN  IF d < 0 \/ d >= base THEN -1
             ELSE DigitsValue(Tail(s), base, n * base + d)

\* strconv.ParseUint(s, 0, 64): base prefix, then digits
ParseUint(s) ==
    IF s = <<>> THEN -1
    ELSE IF Head(s) = "0"
         THEN IF Len(s) >= 3 /\ s[2] \in {"b", "B"} THEN DigitsValue(SubSeq(s, 3, Len(s)), 2, 0)
              ELSE IF Len(s) >= 3 /\ s[2] \in {"o", "O"} THEN DigitsValue(SubSeq(s, 3, Len(s)), 8, 0)
              ELSE IF Len(s) >= 3 /\ s[2] \in {"x", "X"} THEN DigitsValue(SubSeq(s, 3, Len(s)), 16, 0)
              ELSE DigitsValue(Tail(s), 8, 0)
         ELSE DigitsValue(s, 10, 0)

\* strconv.ParseInt(s, 0, 64): [ok, val]
ParseInt(s) ==
    IF s = <<>> THEN [ok |-> FALSE, val |-> 0]
    ELSE LET neg  == Head(s) = "-"
             body == IF Head(s) \in {"+", "-"} THEN Tail(s) ELSE s
             un   == ParseUint(body)
         IN  IF un < 0 THEN [ok |-> FALSE, val |-> 0]
             ELSE [ok |-> TRUE, val |-> IF neg THEN 0 - un ELSE un]

\* error values: nil, or fmt.Errorf(format, a...)
Nil == [fmt |-> "nil", a |-> <<>>]
Errorf(format, a) == [fmt |-> format, a |-> a]

ALL == -1

-----------------------------------------------------------------------------
(* parseMeta *)

metaLowBound(rm) == IF rm THEN 1 ELSE 0

\* line 339: the container id is rejected
metaIdRejected(v, lowBound) ==
    ~v.ok \/ ((v.val < lowBound \/ v.val > 15) /\ v.val # -1)

\* a variant of line 344 that forgets the test of the ALL container id
metaEntryReturns_NoAllTest(specs, id) == Len(specs) = 1

\* line 344: the entry is appended with no sub-ids and parseMeta returns
metaEntryReturns(specs, id) == Len(specs) = 1 \/ id = -1

\* line 351: the sub-id is rejected
metaSidRejected(v, lowBound) == ~v.ok \/ v.val < lowBound

RECURSIVE metaSids(_, _, _)
\* lines 348-356: [ok, sids, bad]
metaSids(sidStrs, lowBound, sids) ==
    IF sidStrs = <<>> THEN [ok |-> TRUE, sids |-> sids, bad |-> <<>>]
    ELSE LET v == ParseInt(Head(sidStrs))
         IN  IF metaSidRejected(v, lowBound)
             THEN [ok |-> FALSE, sids |-> <<>>, bad |-> Head(sidStrs)]
             ELSE metaSids(Tail(sidStrs), lowBound, Append(sids, v.val))

\* lines 329-335: the locals on entry to the loop
metaStart(rem, rm) ==
    [parts |-> Split(rem, ","), i |-> 1, lowBound |-> metaLowBound(rm),
     res |-> <<>>, err |-> Nil, done |-> FALSE]

\* lines 336-359: one iteration of the loop over the parts, or the final return
metaIter(st) ==
    IF st.i > Len(st.parts) THEN [st EXCEPT !.done = TRUE]
    ELSE LET specs == Split(st.parts[st.i], ":")
             v     == ParseInt(specs[1])
             s     == metaSids(Tail(specs), st.lowBound, <<>>)
         IN  IF metaIdRejected(v, st.lowBound)
             THEN [st EXCEPT !.err = Errorf("invalid Id: %s\n", <<specs[1]>>),
                             !.done = TRUE]
             ELSE IF metaEntryReturns(specs, v.val)
             THEN [st EXCEPT !.res = Append(@, [appId |-> v.val, sIds |-> <<>>]),
                             !.done = TRUE]
             ELSE IF ~s.ok
             THEN [st EXCEPT !.res = <<>>,
                             !.err = Errorf("invalid Id: %s\n", <<s.bad>>),
                             !.done = TRUE]
             ELSE [st EXCEPT !.res = Append(@, [appId |-> v.val, sIds |-> s.sids]),
                             !.i = @ + 1]

RECURSIVE metaRun(_)
metaRun(st) == IF st.done THEN st ELSE metaRun(metaIter(st))

\* lines 326-360: (res, err)
parseMeta(rem, rm) ==
    LET st == metaRun(metaStart(rem, rm)) IN [res |-> st.res, err |-> st.err]

-----------------------------------------------------------------------------
(* getModePart, parseScan, parseQuantization, parseEntropy *)

\* jpeg.FormatMode: Standard, Extra, Both; ZeroMode is the literal 0 of line 365
Standard == "Standard"
Extra == "Extra"
Both == "Both"
ZeroMode == "FormatMode(0)"

Last(p) == p[Len(p)]
Front(p) == SubSeq(p, 1, Len(p) - 1)

\* a variant of lines 370, 373, 376 that leaves the mode letter in the fragment
getModePart_KeepsLetter(p) ==
    IF Len(p) < 1 THEN [m |-> ZeroMode, p |-> p, err |-> Errorf("syntax error", <<>>)]
    ELSE IF Last(p) = "s" THEN [m |-> Standard, p |-> p, err |-> Nil]
    ELSE IF Last(p) = "x" THEN [m |-> Extra, p |-> p, err |-> Nil]
    ELSE IF Last(p) = "b" THEN [m |-> Both, p |-> p, err |-> Nil]
    ELSE [m |-> Standard, p |-> p, err |-> Nil]

\* lines 362-381: [m, p, err]
getModePart(p) ==
    IF Len(p) < 1 THEN [m |-> ZeroMode, p |-> p, err |-> Errorf("syntax error", <<>>)]
    ELSE IF Last(p) = "s" THEN [m |-> Standard, p |-> Front(p), err |-> Nil]
    ELSE IF Last(p) = "x" THEN [m |-> Extra, p |-> Front(p), err |-> Nil]
    ELSE IF Last(p) = "b" THEN [m |-> Both, p |-> Front(p), err |-> Nil]
    ELSE [m |-> Standard, p |-> p, err |-> Nil]

\* lines 399, 437, 492: a table index / destination is rejected
destRejected(v) == ~v.ok \/ v.val < 0 \/ v.val > 3

\* a variant of lines 409, 447, 502 that forgets the sign test
frameRejected_NoSign(v) == ~v.ok

\* lines 409, 447, 502: a frame number is rejected
frameRejected(v) == ~v.ok \/ v.val < 0

RECURSIVE scanLoop(_, _, _)
\* lines 385-416
scanLoop(parts, scan, res) ==
    IF parts = <<>> THEN [res |-> res, err |-> Nil]
    ELSE LET mp    == getModePart(Head(parts))
             specs == Split(mp.p, ":")
             vi    == ParseInt(specs[1])
             index == IF specs[1] = <<"*">> THEN -1 ELSE vi.val
             vf    == ParseInt(specs[2])
             frame == IF Len(specs) > 1
                      THEN IF specs[2] = <<"*">> THEN -1 ELSE vf.val
                      ELSE 0
         IN  IF mp.err # Nil
             THEN [res |-> res,
                   err |-> Errorf("Scan table %v: -sc=%s\n", << <<mp.err.fmt>>, scan>>)]
             ELSE IF Len(specs) > 2
             THEN [res |-> <<>>, err |-> Errorf("Scan table syntax error: -sc=%s\n", <<scan>>)]
             ELSE IF specs[1] # <<"*">> /\ destRejected(vi)
             THEN [res |-> <<>>, err |-> Errorf("invalid Scan table index: %s\n", <<specs[1]>>)]
             ELSE IF Len(specs) > 1 /\ specs[2] # <<"*">> /\ frameRejected(vf)
             THEN [res |-> <<>>, err |-> Errorf("invalid Scan table frame: %s\n", <<specs[2]>>)]
             ELSE scanLoop(Tail(parts), scan,
                           Append(res, [index |-> index, frame |-> frame, mode |-> mp.m]))

parseScan(scan) == scanLoop(Split(scan, ","), scan, <<>>)

RECURSIVE quantizationLoop(_, _, _)
\* lines 422-454
quantizationLoop(parts, quantization, res) ==
    IF parts = <<>> THEN [res |-> res, err |-> Nil]
    ELSE LET mp    == getModePart(Head(parts))
             specs == Split(mp.p, ":")
             vd    == ParseInt(specs[1])
             dest  == IF specs[1] = <<"*">> THEN -1 ELSE vd.val
             vf    == ParseInt(specs[2])
             frame == IF Len(specs) > 1
                      THEN IF specs[2] = <<"*">> THEN -1 ELSE vf.val
                      ELSE 0
         IN  IF mp.err # Nil
             THEN [res |-> res,
                   err |-> Errorf("Quantization table %v: -qu=%s\n",
                                  << <<mp.err.fmt>>, quantization>>)]
             ELSE IF Len(specs) > 2
             THEN [res |-> <<>>,
                   err |-> Errorf("Quantization table syntax error: -qu=%s\n",
                                  <<quantization>>)]
             ELSE IF specs[1] # <<"*">> /\ destRejected(vd)
             THEN [res |-> <<>>,
                   err |-> Errorf("invalid Quantization table destination: %s\n",
                                  <<specs[1]>>)]
             ELSE IF Len(specs) > 1 /\ specs[2] # <<"*">> /\ frameRejected(vf)
             THEN [res |-> <<>>,
                   err |-> Errorf("invalid Quantization table frame: %s\n", <<specs[2]>>)]
             ELSE quantizationLoop(Tail(parts), quantization,
                                   Append(res, [dest |-> dest, frame |-> frame, mode |-> mp.m]))

parseQuantization(quantization) ==
    quantizationLoop(Split(quantization, ","), quantization, <<>>)

\* lines 471-480: the class switch, -2 for the default branch
entropyClass(s) ==
    IF s = <<"*">> THEN -1
    ELSE IF s = <<"D", "C">> THEN 0
    ELSE IF s = <<"A", "C">> THEN 1
    ELSE -2

\* a variant of line 482 that lets "*" through for a specific class
entropyStarRefused_Never(class) == FALSE

\* line 482: a "*" destination is refused
entropyStarRefused(class) == class # -1

\* line 488: a numeric destination is refused
entropyDestRefused(class) == class = -1

RECURSIVE entropyLoop(_, _, _)
\* lines 461-509
entropyLoop(parts, entropy, res) ==
    IF parts = <<>> THEN [res |-> res, err |-> Nil]
    ELSE LET mp    == getModePart(Head(parts))
             specs == Split(mp.p, ":")
             class == entropyClass(specs[1])
             vd    == ParseInt(specs[2])
             dest  == IF specs[2] = <<"*">> THEN -1 ELSE vd.val
             vf    == ParseInt(specs[3])
             frame == IF Len(specs) > 2
                      THEN IF specs[3] = <<"*">> THEN -1 ELSE vf.val
                      ELSE 0
         IN  IF mp.err # Nil
             THEN [res |-> <<>>,
                   err |-> Errorf("Entropy table %v: -en=%s\n", << <<mp.err.fmt>>, entropy>>)]
             ELSE IF Len(specs) < 2 \/ Len(specs) > 3
             THEN [res |-> <<>>,
                   err |-> Errorf("Entropy table syntax error: -en=%s\n", <<entropy>>)]
             ELSE IF class = -2
             THEN [res |-> <<>>,
                   err |-> Errorf("invalid Entropy table class: %s\n", <<specs[1]>>)]
             ELSE IF specs[2] = <<"*">> /\ entropyStarRefused(class)
             THEN [res |-> <<>>,
                   err |-> Errorf("Unsupported case: specific destination for all classes\n",
                                  <<>>)]
             ELSE IF specs[2] # <<"*">> /\ entropyDestRefused(class)
             THEN [res |-> <<>>,
                   err |-> Errorf("Unsupported case: all destinations for specific class\n",
                                  <<>>)]
             ELSE IF specs[2] # <<"*">> /\ destRejected(vd)
             THEN [res |-> <<>>,
                   err |-> Errorf("invalid Entropy table destination: %s\n", <<specs[2]>>)]
             ELSE IF Len(specs) > 2 /\ specs[3] # <<"*">> /\ frameRejected(vf)
             THEN [res |-> <<>>,
                   err |-> Errorf("invalid Entropy table frame: %s\n", <<specs[3]>>)]
             ELSE entropyLoop(Tail(parts), entropy,
                              Append(res, [class |-> class, dest |-> dest,
                                           frame |-> frame, mode |-> mp.m]))

parseEntropy(entropy) == entropyLoop(Split(entropy, ","), entropy, <<>>)

-----------------------------------------------------------------------------
(* parseSthumb, parseSpict *)

\* line 312: the entry has not exactly two fields
sthumbBadCount(specs) == Len(specs) # 2

\* a variant of line 318 that forgets the upper bound
sthumbIdRejected_NoUpper(v) == ~v.ok \/ v.val < 0

\* line 318: the thumbnail id is rejected
sthumbIdRejected(v) == ~v.ok \/ v.val < 0 \/ v.val > 1

RECURSIVE sthumbLoop(_, _)
\* lines 310-322
sthumbLoop(parts, res) ==
    IF parts = <<>> THEN [res |-> res, err |-> Nil]
    ELSE LET specs == Split(Head(parts), ":")
             v     == ParseInt(specs[1])
         IN  IF sthumbBadCount(specs)
             THEN [res |-> <<>>,
                   err |-> Errorf("Save Thumbnails: missing path or id: %s\n", <<Head(parts)>>)]
             ELSE IF sthumbIdRejected(v)
             THEN [res |-> <<>>, err |-> Errorf("invalid Id: %s\n", <<specs[1]>>)]
             ELSE sthumbLoop(Tail(parts), Append(res, [Path |-> specs[2], ThId |-> v.val]))

parseSthumb(sthumb) == sthumbLoop(Split(sthumb, ","), <<>>)

\* jpeg.VisualSide, numbered as the side names of line 911 are indexed
Left == 0
Top == 1
Right == 2
Bottom == 3

\* a variant of line 248 that never reports a monochrome format
getFormat_NeverBW(f) ==
    IF f = <<"B", "W">> \/ f = <<"R", "G", "B">> THEN [bw |-> FALSE, err |-> Nil]
    ELSE [bw |-> FALSE, err |-> Errorf("format %s is not recognized\n", <<f>>)]

\* lines 244-252: [bw, err]
getFormat(f) ==
    IF f = <<"B", "W">> THEN [bw |-> TRUE, err |-> Nil]
    ELSE IF f = <<"R", "G", "B">> THEN [bw |-> FALSE, err |-> Nil]
    ELSE [bw |-> FALSE, err |-> Errorf("format %s is not recognized\n", <<f>>)]

\* a variant of line 263 that sets both sides of LT to the left one
getOrientation_LeftLeft(o) ==
    IF o = <<"T", "L">> THEN [r |-> Top, c |-> Left, err |-> Nil]
    ELSE IF o = <<"T", "R">> THEN [r |-> Top, c |-> Right, err |-> Nil]
    ELSE IF o = <<"B", "R">> THEN [r |-> Bottom, c |-> Right, err |-> Nil]
    ELSE IF o = <<"B", "L">> THEN [r |-> Bottom, c |-> Left, err |-> Nil]
    ELSE IF o = <<"L", "T">> THEN [r |-> Left, c |-> Left, err |-> Nil]
    ELSE IF o = <<"R", "T">> THEN [r |-> Right, c |-> Top, err |-> Nil]
    ELSE IF o = <<"R", "B">> THEN [r |-> Right, c |-> Bottom, err |-> Nil]
    ELSE IF o = <<"L", "B">> THEN [r |-> Left, c |-> Bottom, err |-> Nil]
    ELSE [r |-> 0, c |-> 0, err |-> Errorf("orientation %s is not recognized\n", <<o>>)]

\* lines 254-273: [r, c, err]
getOrientation(o) ==
    IF o = <<"T", "L">> THEN [r |-> Top, c |-> Left, err |-> Nil]
    ELSE IF o = <<"T", "R">> THEN [r |-> Top, c |-> Right, err |-> Nil]
    ELSE IF o = <<"B", "R">> THEN [r |-> Bottom, c |-> Right, err |-> Nil]
    ELSE IF o = <<"B", "L">> THEN [r |-> Bottom, c |-> Left, err |-> Nil]
    ELSE IF o = <<"L", "T">> THEN [r |-> Left, c |-> Top, err |-> Nil]
    ELSE IF o = <<"R", "T">> THEN [r |-> Right, c |-> Top, err |-> Nil]
    ELSE IF o = <<"R", "B">> THEN [r |-> Right, c |-> Bottom, err |-> Nil]
    ELSE IF o = <<"L", "B">> THEN [r |-> Left, c |-> Bottom, err |-> Nil]
    ELSE [r |-> 0, c |-> 0, err |-> Errorf("orientation %s is not recognized\n", <<o>>)]

\* the zero storeParameters
NoStore == [row0 |-> 0, col0 |-> 0, bw |-> FALSE, path |-> <<>>]

\* lines 276-305
parseSpict(spict) ==
    LET parts  == Split(spict, ":")
        params == Split(parts[1], ",")
        f      == getFormat(params[2])
        bw     == IF Len(params) = 2 THEN f.bw ELSE FALSE
        o      == getOrientation(params[1])
    IN  IF Len(parts) > 2
        THEN [res |-> NoStore,
              err |-> Errorf("Save picture: syntax error: too many ':' in %s\n", <<spict>>)]
        ELSE IF Len(parts) # 2
        THEN [res |-> [NoStore EXCEPT !.path = spict], err |-> Nil]
        ELSE IF Len(params) > 2
        THEN [res |-> NoStore,
              err |-> Errorf("Save picture: syntax error: too many ',' in %s\n", <<parts[1]>>)]
        ELSE IF Len(params) = 2 /\ f.err # Nil
        THEN [res |-> NoStore,
              err |-> Errorf("Save picture: syntax error: %v\n", << <<f.err.fmt>> >> \o f.err.a)]
        ELSE IF params[1] # <<>> /\ o.err # Nil
        THEN [res |-> [NoStore EXCEPT !.bw = bw],
              err |-> Errorf("Save picture: syntax error: %v\n", << <<o.err.fmt>> >> \o o.err.a)]
        ELSE IF params[1] # <<>>
        THEN [res |-> [row0 |-> o.r, col0 |-> o.c, bw |-> bw, path |-> parts[2]], err |-> Nil]
        ELSE [res |-> [NoStore EXCEPT !.bw = bw, !.path = parts[2]], err |-> Nil]

-----------------------------------------------------------------------------
(* getArgs *)

\* lines 528, 231-242: the zero jpgArgs
NoArgs ==
    [input |-> <<>>, output |-> <<>>, tables |-> FALSE,
     meta |-> <<>>, quTables |-> <<>>, enTables |-> <<>>, scTables |-> <<>>,
     rmActions |-> <<>>, svActions |-> <<>>, sPicture |-> NoStore]

\* a variant of lines 583-585 that drops the parser's error
optionFails_Ignored(value, r) == FALSE

\* lines 581-584 and the like: the option is given and its parser returns an error
optionFails(value, r) == value # <<>> /\ r.err # Nil

\* line 584: fmt.Errorf("getArgs: %w", err)
wrapErr(e) == Errorf("getArgs: %w", << <<e.fmt>> >> \o e.a)

\* the parsed value of an option, the zero value when the option is absent
parsedOr(value, r, zero) == IF value # <<>> THEN r.res ELSE zero

\* lines 564-580: -v, -oh and a wrong number of file names end the process
exitsEarly(f) == f.version \/ f.soptions # <<>> \/ f.nargs # 1

\* lines 582, 589, 596, 603, 610, 626, 639: each option's parser on its value
parseAll(f) ==
    [meta      |-> parseMeta(f.meta, FALSE),
     entropy   |-> parseEntropy(f.entropy),
     quantizer |-> parseQuantization(f.quantizer),
     scan      |-> parseScan(f.scan),
     remove    |-> parseMeta(f.remove, TRUE),
     sthumb    |-> parseSthumb(f.sthumb),
     spict     |-> parseSpict(f.spict)]

\* lines 581-648: the order in which getArgs looks at the options
optionOrder == <<"meta", "entropy", "quantizer", "scan", "remove", "sthumb", "spict">>

\* lines 581-670, given the parsers' results r: the error of the first option
\* that fails, in the order of optionOrder, or the filled jpgArgs
getArgsFrom(f, r) ==
    LET bad   == {i \in 1..Len(optionOrder) :
                     optionFails(f[optionOrder[i]], r[optionOrder[i]])}
        first == CHOOSE i \in bad : \A j \in bad : i <= j
    IN  IF bad # {}
        THEN [args |-> NoArgs, err |-> wrapErr(r[optionOrder[first]].err)]
        ELSE [args |-> [input     |-> f.input,
                        output    |-> f.output,
                        tables    |-> f.tables,
                        meta      |-> parsedOr(f.meta, r.meta, <<>>),
                        quTables  |-> parsedOr(f.quantizer, r.quantizer, <<>>),
                        enTables  |-> parsedOr(f.entropy, r.entropy, <<>>),
                        scTables  |-> parsedOr(f.scan, r.scan, <<>>),
                        rmActions |-> parsedOr(f.remove, r.remove, <<>>),
                        svActions |-> parsedOr(f.sthumb, r.sthumb, <<>>),
                        sPicture  |-> parsedOr(f.spict, r.spict, NoStore)],
              err |-> Nil]

\* lines 526-671: [args, err]; args is NoArgs for the nil pointer
getArgs(f) == getArgsFrom(f, parseAll(f))

-----------------------------------------------------------------------------
(* The single-parser specifications: one parser applied to one option value *)

MaxMetaLen == 6
MaxEntropyEntries == 2
MaxSthumbLen == 5

StringsOver(A, n) == UNION {[1..k -> A] : k \in 1..n}

RECURSIVE Join(_, _)
\* strings.Join(elems, sep)
Join(elems, sep) ==
    IF elems = <<>> THEN <<>>
    ELSE IF Len(elems) = 1 THEN elems[1]
    ELSE elems[1] \o <<sep>> \o Join(Tail(elems), sep)

NoRet == [res |-> <<>>, err |-> Nil]
NoLoc == [parts |-> <<>>, i |-> 0, lowBound |-> 0, res |-> <<>>, err |-> Nil, done |-> TRUE]

\* the part of the state main uses, untouched while a single parser is studied
MainIdle ==
    /\ flags = <<>> /\ args = <<>> /\ jpg = <<>> /\ err = Nil
    /\ sel = 0 /\ frm = 0 /\ calls = <<>>

\* -meta / -rmeta values: every string of at most MaxMetaLen characters over
\* MetaChars, and the values of the documentation (lines 101, 149, 150)
MetaChars == {"0", "1", "-", ":", ","}
MetaExamples ==
    { <<"0", ",", "1", ":", "0", ":", "2">>,
      <<"1", ",", "1", "3">>,
      <<"0", ",", "1", ":", "5", ":", "6">>,
      <<"-", "1", ",", "3">>,
      <<"1", ":", "2", ",", "-", "1", ",", "3">>,
      <<"1", ":", "0", ":", "2", ",", "3", ":", "1">>,
      <<"1", "x">>, <<"1", ":", "2", "b">>, <<"0", "x", "1", "b">>,
      <<"1", "6", ":", "2">>, <<"2", ":", "x", ",", "3">> }
MetaInputs == StringsOver(MetaChars, MaxMetaLen) \cup MetaExamples

ParseMetaInit ==
    /\ pc = "parseMeta" /\ fn = "parseMeta"
    /\ arg \in MetaInputs /\ remove \in BOOLEAN
    /\ loc = metaStart(arg, remove)
    /\ ret = NoRet
    /\ MainIdle

\* one iteration of the loop of lines 336-358
ParseMetaIterate ==
    /\ pc = "parseMeta" /\ ~loc.done
    /\ loc' = metaIter(loc)
    /\ UNCHANGED <<pc, fn, arg, remove, ret, flags, args, jpg, err, sel, frm, calls>>

\* parseMeta returns (res, err)
ParseMetaReturn ==
    /\ pc = "parseMeta" /\ loc.done
    /\ pc' = "return"
    /\ ret' = [res |-> loc.res, err |-> loc.err]
    /\ UNCHANGED <<fn, arg, remove, loc, flags, args, jpg, err, sel, frm, calls>>

ParseMetaNext == ParseMetaIterate \/ ParseMetaReturn
SpecMeta == ParseMetaInit /\ [][ParseMetaNext]_vars

\* -en values: at most MaxEntropyEntries comma-separated entries, each made of a
\* class, a destination, an optional frame and an optional mode letter, or malformed
EntropyClassTokens == {<<"*">>, <<"D", "C">>, <<"A", "C">>, <<"D">>}
EntropyDestTokens == {<<"*">>, <<"1">>, <<"4">>}
EntropyFrameTokens == {<<"*">>}
EntropyModeTokens == {<<>>, <<"x">>}
EntropyEntries ==
    {c \o <<":">> \o d \o m :
        c \in EntropyClassTokens, d \in EntropyDestTokens, m \in EntropyModeTokens}
    \cup {c \o <<":">> \o d \o <<":">> \o f \o m :
        c \in EntropyClassTokens, d \in EntropyDestTokens,
        f \in EntropyFrameTokens, m \in EntropyModeTokens}
    \cup { <<>>, <<"D", "C">>, <<"A", "C", ":", "1", ":", "-", "1">>,
           <<"D", "C", ":", "1", ":", "2", ":", "0">>, <<"D", "C", ":", "0", ":", "2", "b">> }
EntropyInputs ==
    {Join(es, ",") : es \in UNION {[1..k -> EntropyEntries] : k \in 1..MaxEntropyEntries}}
    \ {<<>>}

ParseEntropyInit ==
    /\ pc = "parseEntropy" /\ fn = "parseEntropy"
    /\ arg \in EntropyInputs /\ remove = FALSE
    /\ loc = NoLoc /\ ret = NoRet
    /\ MainIdle

\* parseEntropy(arg) runs and returns
ParseEntropyCall ==
    /\ pc = "parseEntropy"
    /\ pc' = "return"
    /\ ret' = parseEntropy(arg)
    /\ UNCHANGED <<fn, arg, remove, loc, flags, args, jpg, err, sel, frm, calls>>

SpecEntropy == ParseEntropyInit /\ [][ParseEntropyCall]_vars

\* -sthumb values: every string of at most MaxSthumbLen characters over
\* SthumbChars, and 2:/tmp/x
SthumbChars == {"0", "1", "2", ":", ",", "p"}
SthumbExamples == { <<"2", ":", "/", "t", "m", "p", "/", "x">>,
                    <<"0", ":", "a", ",", "1", ":", "b">> }
SthumbInputs == StringsOver(SthumbChars, MaxSthumbLen) \cup SthumbExamples

ParseSthumbInit ==
    /\ pc = "parseSthumb" /\ fn = "parseSthumb"
    /\ arg \in SthumbInputs /\ remove = FALSE
    /\ loc = NoLoc /\ ret = NoRet
    /\ MainIdle

\* parseSthumb(arg) runs and returns
ParseSthumbCall ==
    /\ pc = "parseSthumb"
    /\ pc' = "return"
    /\ ret' = parseSthumb(arg)
    /\ UNCHANGED <<fn, arg, remove, loc, flags, args, jpg, err, sel, frm, calls>>

SpecSthumb == ParseSthumbInit /\ [][ParseSthumbCall]_vars

MaxTableLen == 4
MaxFragmentLen == 3

\* -qu / -sc values: every string of at most MaxTableLen characters over
\* TableChars, and the values of the documentation (lines 104-112, 125-131)
TableChars == {"0", "1", "4", "*", ":", ",", "-", "b"}
TableExamples ==
    { <<"3">>, <<"3", ":", "7", "s">>, <<"*", ":", "*", "b">>, <<"2", ":", "1", "x">>,
      <<"0", "x", "1", "b">>, <<"1", ":", "2", ":", "3">>, <<"4", ":", "0">>,
      <<"1", "x", ":", "2">>, <<"0", ":", "-", "1">>, <<"1", ",", "2", ":", "*", "x">> }
TableInputs == StringsOver(TableChars, MaxTableLen) \cup TableExamples

ParseQuantizationInit ==
    /\ pc = "parseQuantization" /\ fn = "parseQuantization"
    /\ arg \in TableInputs /\ remove = FALSE
    /\ loc = NoLoc /\ ret = NoRet
    /\ MainIdle

\* parseQuantization(arg) runs and returns
ParseQuantizationCall ==
    /\ pc = "parseQuantization"
    /\ pc' = "return"
    /\ ret' = parseQuantization(arg)
    /\ UNCHANGED <<fn, arg, remove, loc, flags, args, jpg, err, sel, frm, calls>>

ParseScanInit ==
    /\ pc = "parseScan" /\ fn = "parseScan"
    /\ arg \in TableInputs /\ remove = FALSE
    /\ loc = NoLoc /\ ret = NoRet
    /\ MainIdle

\* parseScan(arg) runs and returns
ParseScanCall ==
    /\ pc = "parseScan"
    /\ pc' = "return"
    /\ ret' = parseScan(arg)
    /\ UNCHANGED <<fn, arg, remove, loc, flags, args, jpg, err, sel, frm, calls>>

\* the fragments handed to getModePart: the empty one, and every string of at
\* most MaxFragmentLen characters over FragmentChars
FragmentChars == {"s", "x", "b", "1", ":"}
FragmentInputs == {<<>>} \cup StringsOver(FragmentChars, MaxFragmentLen)

GetModePartInit ==
    /\ pc = "getModePart" /\ fn = "getModePart"
    /\ arg \in FragmentInputs /\ remove = FALSE
    /\ loc = NoLoc /\ ret = NoRet
    /\ MainIdle

\* getModePart(arg) runs and returns
GetModePartCall ==
    /\ pc = "getModePart"
    /\ pc' = "return"
    /\ ret' = getModePart(arg)
    /\ UNCHANGED <<fn, arg, remove, loc, flags, args, jpg, err, sel, frm, calls>>

\* the selector parsers and getModePart, each applied to one value
ParsersInit ==
    \/ ParseMetaInit \/ ParseEntropyInit
    \/ ParseQuantizationInit \/ ParseScanInit
    \/ GetModePartInit

ParsersNext ==
    \/ ParseMetaIterate \/ ParseMetaReturn
    \/ ParseEntropyCall
    \/ ParseQuantizationCall
    \/ ParseScanCall
    \/ GetModePartCall

SpecParsers == ParsersInit /\ [][ParsersNext]_vars

MaxSpictLen == 5

\* line 254: the orientation names
OrientationNames ==
    { <<"T", "L">>, <<"T", "R">>, <<"B", "R">>, <<"B", "L">>,
      <<"L", "T">>, <<"R", "T">>, <<"R", "B">>, <<"L", "B">> }

\* -spict values: every string of at most MaxSpictLen characters over SpictChars,
\* each orientation name in front of a path, and values with a format
SpictChars == {"T", "L", "B", "W", ":", ","}
SpictExamples ==
    { o \o <<":", "p">> : o \in OrientationNames }
    \cup { <<"p">>,
           <<"T", "L", ",", "B", "W", ":", "p">>,
           <<"R", "T", ",", "R", "G", "B", ":", "p">>,
           <<",", "R", "G", "B", ":", "p">>,
           <<"L", "B", ",", "B", "W", ":", "/", "t", "/", "p">>,
           <<"T", "L", ",", "X", "X", ":", "p">>,
           <<"X", "X", ",", "B", "W", ":", "p">>,
           <<"t", "l", ":", "p">>,
           <<"T", "L", ",", "B", "W", ",", "B", "W", ":", "p">>,
           <<"T", "L", ":", "p", ":", "q">> }
SpictInputs == StringsOver(SpictChars, MaxSpictLen) \cup SpictExamples

ParseSpictInit ==
    /\ pc = "parseSpict" /\ fn = "parseSpict"
    /\ arg \in SpictInputs /\ remove = FALSE
    /\ loc = NoLoc /\ ret = NoRet
    /\ MainIdle

\* parseSpict(arg) runs and returns
ParseSpictCall ==
    /\ pc = "parseSpict"
    /\ pc' = "return"
    /\ ret' = parseSpict(arg)
    /\ UNCHANGED <<fn, arg, remove, loc, flags, args, jpg, err, sel, frm, calls>>

SpecSpict == ParseSpictInit /\ [][ParseSpictCall]_vars

-----------------------------------------------------------------------------
(* main: getArgs, jpeg.Read, then the dispatch drivers and the saving stages *)

MaxFrames == 3

S(str) == << str >>     \* a file name, kept as one character

\* the command lines studied: each option absent, or one of a few values
MetaFlags == { <<>>, <<"1", ":", "2", ",", "3">>, <<"1", "6">> }
EntropyFlags ==
    { <<>>,
      <<"A", "C", ":", "1", ":", "*", ",", "*", ":", "*", "x">>,
      <<"A", "C", ":", "1", ":", "*", ",", "D", "C", ":", "1", "b", ",", "*", ":", "*", "x">>,
      <<"*", ":", "*", ":", "*", ",", "D", "C", ":", "2", ":", "1", "b">>,
      <<"D", "C", ":", "1", "x", ",", "A", "C", ":", "*">> }
QuantizerFlags == { <<>>, <<"*", ":", "*", "b", ",", "1">>, <<"4">> }
ScanFlags == { <<>>, <<"*", ":", "*", ",", "2", ":", "1", "x">>, <<"0", ":">> }
RemoveFlags == { <<>>, <<"1", ":", "5", ":", "6", ",", "1", "3">>, <<"0">> }
SthumbFlags == { <<>>, <<"0", ":", "t">>, <<"2", ":", "t">> }
SpictFlags == { <<>>, <<"p">>, <<"L", "T", ",", "B", "W", ":", "p">>, <<"X", "X", ":", "p">> }
OutputFlags == { <<>>, <<"o">> }
EarlyFlags ==
    { [version |-> FALSE, soptions |-> <<>>, nargs |-> 1],
      [version |-> TRUE, soptions |-> <<>>, nargs |-> 1],
      [version |-> FALSE, soptions |-> <<"s", "a", "v", "e">>, nargs |-> 1],
      [version |-> FALSE, soptions |-> <<>>, nargs |-> 0],
      [version |-> FALSE, soptions |-> <<>>, nargs |-> 2] }

\* what jpeg.Read may return: no descriptor, or a descriptor, complete or not
NoJpg == [nil |-> TRUE, complete |-> FALSE, nFrames |-> 0]
JpgOutcomes ==
    { NoJpg, [nil |-> FALSE, complete |-> FALSE, nFrames |-> 0] }
    \cup { [nil |-> FALSE, complete |-> TRUE, nFrames |-> n] : n \in 0..MaxFrames }

\* the error returned by the n-th call made to the jpeg package
CallErr(n) == Errorf("jpeg: call failed", << <<ToString(n)>> >>)
Outcomes == { Nil, CallErr(Len(calls) + 1) }

\* one call to the jpeg package, issued for selector s, with arguments a and result e
Call(op, s, a, e) == [op |-> op, sel |-> s, a |-> a, err |-> e]

Init ==
    /\ pc = "getArgs"
    /\ \E early \in EarlyFlags :
       \E m \in MetaFlags, en \in EntropyFlags, qu \in QuantizerFlags, sc \in ScanFlags,
          rm \in RemoveFlags, st \in SthumbFlags, sp \in SpictFlags, o \in OutputFlags,
          t \in BOOLEAN :
            flags = [version |-> early.version, soptions |-> early.soptions,
                     nargs |-> early.nargs, input |-> S("in"),
                     meta |-> m, entropy |-> en, quantizer |-> qu, scan |-> sc,
                     remove |-> rm, sthumb |-> st, spict |-> sp, output |-> o,
                     tables |-> t]
    /\ args = NoArgs /\ jpg = NoJpg /\ err = Nil
    /\ sel = 0 /\ frm = 0 /\ calls = <<>>
    /\ fn = "main" /\ arg = <<>> /\ remove = FALSE /\ loc = NoLoc /\ ret = NoRet

Idle == <<fn, arg, remove, loc, ret, flags>>

\* lines 806-812: getArgs, and main's return when it fails
GetArgs ==
    /\ pc = "getArgs"
    /\ IF exitsEarly(flags)
       THEN pc' = "exit" /\ UNCHANGED <<args, err>>
       ELSE LET r == getArgs(flags)
            IN  /\ args' = r.args
                /\ err' = r.err
                /\ pc' = IF r.err # Nil THEN "exit" ELSE "read"
    /\ UNCHANGED <<jpg, sel, frm, calls>>
    /\ UNCHANGED Idle

\* lines 814-826: jpeg.Read, FormatImageInfo, the completeness test, FormatFrameInfo
Read ==
    /\ pc = "read"
    /\ \E e \in Outcomes, d \in JpgOutcomes :
        /\ e = Nil => ~d.nil
        /\ jpg' = d
        /\ err' = e
        /\ \/ /\ d.nil
              /\ pc' \in {"panic", "exit"}     \* FormatImageInfo on a nil descriptor
              /\ calls' = calls \o << Call("Read", 0, <<args.input>>, e),
                                      Call("FormatImageInfo", 0, <<>>, Nil) >>
           \/ /\ ~d.nil /\ ~d.complete
              /\ pc' = "exit"
              /\ calls' = calls \o << Call("Read", 0, <<args.input>>, e),
                                      Call("FormatImageInfo", 0, <<>>, Nil) >>
           \/ /\ ~d.nil /\ d.complete
              /\ pc' = "processTables"
              /\ calls' = calls \o << Call("Read", 0, <<args.input>>, e),
                                      Call("FormatImageInfo", 0, <<>>, Nil),
                                      Call("FormatFrameInfo", 0, <<0>>, Nil) >>
    /\ UNCHANGED <<args, sel, frm>>
    /\ UNCHANGED Idle

\* a variant of lines 703, 710 that goes on after an error
loopBreaks_Never(e) == FALSE

\* lines 703, 710 and the like: the driver leaves its loop on an error
loopBreaks(e) == e # Nil

\* a variant of lines 828-831 that goes on to the next stage after an error
Stage_GoesOn(e, next) ==
    /\ err' = e
    /\ pc' = next
    /\ sel' = 1 /\ frm' = 0

\* lines 828-831 and the like: main moves to the next stage, or returns on an error
Stage(e, next) ==
    /\ err' = e
    /\ pc' = IF e # Nil THEN "exit" ELSE next
    /\ sel' = 1 /\ frm' = 0

\* lines 683-692, 827-831
ProcessTables ==
    /\ pc = "processTables"
    /\ IF args.tables
       THEN \E e \in Outcomes :
               /\ calls' = Append(calls, Call("FormatSegments", 0, <<>>, e))
               /\ Stage(e, "processMeta")
       ELSE UNCHANGED calls /\ Stage(Nil, "processMeta")
    /\ UNCHANGED <<args, jpg>>
    /\ UNCHANGED Idle

\* lines 674-679: one pass of the loop of processMeta
MetaCall ==
    /\ pc = "processMeta" /\ sel <= Len(args.meta)
    /\ \E e \in Outcomes :
        /\ calls' = Append(calls, Call("FormatMetadata", sel,
                                       <<args.meta[sel].appId, args.meta[sel].sIds>>, e))
        /\ err' = e
        /\ IF loopBreaks(e)
           THEN pc' = "exit" /\ UNCHANGED sel
           ELSE pc' = pc /\ sel' = sel + 1
    /\ UNCHANGED <<args, jpg, frm>>
    /\ UNCHANGED Idle

\* lines 680, 832-836
MetaReturn ==
    /\ pc = "processMeta" /\ sel > Len(args.meta)
    /\ Stage(err, "processQuantization")
    /\ UNCHANGED <<args, jpg, calls>>
    /\ UNCHANGED Idle

\* a variant of line 740 that passes the selector's destination as it is
enDest_Unflattened(et) == IF et.class = -1 THEN -1 ELSE et.dest

\* the destination each table driver passes to FormatEncodingTable
quDest(qt) == qt.dest                                             \* lines 702, 709
enDest(et) == IF et.class = -1 THEN -1 ELSE et.class * 4 + et.dest   \* lines 727, 740
scDest(sc) == sc.index                                            \* lines 770, 777

\* lines 702, 740/727, 770: the destination argument of the driver of a kind
destOf(kind, t) ==
    CASE kind = "Quantization" -> quDest(t)
      [] kind = "Entropy"      -> enDest(t)
      [] kind = "Scan"         -> scDest(t)

\* a variant of line 700 whose loop stops one frame early
frameLoopRuns_OffByOne(i, nFrames) == i < nFrames - 1

\* lines 700, 725, 743, 768: the condition of the frame loop
frameLoopRuns(i, nFrames) == i < nFrames

\* a variant of lines 701, 709 that walks the frames from the last one down
frameOf_Downwards(t, i) == IF t.frame = -1 THEN jpg.nFrames - 1 - i ELSE t.frame

\* lines 701, 709 and the like: the frame passed to FormatEncodingTable
frameOf(t, i) == IF t.frame = -1 THEN i ELSE t.frame

\* lines 698-713 and the like: one FormatEncodingTable call of a table driver,
\* inside the frame loop of an ALL-frame selector or for a selector with a frame
TableCall(stage, kind, tables) ==
    /\ pc = stage /\ sel <= Len(tables)
    /\ LET t     == tables[sel]
           loops == t.frame = -1
       IN  /\ loops => frameLoopRuns(frm, jpg.nFrames)
           /\ \E e \in Outcomes :
               /\ calls' = Append(calls,
                                  Call("FormatEncodingTable", sel,
                                       <<frameOf(t, frm), kind, destOf(kind, t), t.mode>>,
                                       e))
               /\ err' = e
               /\ IF loopBreaks(e)
                  THEN pc' = "exit" /\ UNCHANGED <<sel, frm>>
                  ELSE /\ pc' = pc
                       /\ IF loops
                          THEN frm' = frm + 1 /\ UNCHANGED sel
                          ELSE frm' = 0 /\ sel' = sel + 1
    /\ UNCHANGED <<args, jpg>>
    /\ UNCHANGED Idle

\* lines 700, 706 and the like: the frame loop of an ALL-frame selector is over
TableAdvance(stage, tables) ==
    /\ pc = stage /\ sel <= Len(tables)
    /\ tables[sel].frame = -1 /\ ~frameLoopRuns(frm, jpg.nFrames)
    /\ sel' = sel + 1 /\ frm' = 0
    /\ UNCHANGED <<pc, args, jpg, err, calls>>
    /\ UNCHANGED Idle

\* lines 715, 837-841 and the like: the driver returns err to main
TableReturn(stage, tables, next) ==
    /\ pc = stage /\ sel > Len(tables)
    /\ Stage(err, next)
    /\ UNCHANGED <<args, jpg, calls>>
    /\ UNCHANGED Idle

QuantizationCall ==
    TableCall("processQuantization", "Quantization", args.quTables)
QuantizationAdvance == TableAdvance("processQuantization", args.quTables)
QuantizationReturn == TableReturn("processQuantization", args.quTables, "processEntropy")

EntropyTableCall == TableCall("processEntropy", "Entropy", args.enTables)
EntropyAdvance == TableAdvance("processEntropy", args.enTables)
EntropyReturn == TableReturn("processEntropy", args.enTables, "processScan")

ScanCall == TableCall("processScan", "Scan", args.scTables)
ScanAdvance == TableAdvance("processScan", args.scTables)
ScanReturn == TableReturn("processScan", args.scTables, "processSave")

\* lines 786-791, 853-857
ProcessSave ==
    /\ pc = "processSave"
    /\ IF Len(args.svActions) > 0
       THEN \E e \in Outcomes :
               /\ calls' = Append(calls, Call("SaveThumbnail", 0, <<args.svActions>>, e))
               /\ Stage(e, "processRemove")
       ELSE UNCHANGED calls /\ Stage(Nil, "processRemove")
    /\ UNCHANGED <<args, jpg>>
    /\ UNCHANGED Idle

\* lines 795-800: one pass of the loop of processRemove
RemoveCall ==
    /\ pc = "processRemove" /\ sel <= Len(args.rmActions)
    /\ \E e \in Outcomes :
        /\ calls' = Append(calls, Call("RemoveMetadata", sel,
                                       <<args.rmActions[sel].appId,
                                         args.rmActions[sel].sIds>>, e))
        /\ err' = e
        /\ IF loopBreaks(e)
           THEN pc' = "exit" /\ UNCHANGED sel
           ELSE pc' = pc /\ sel' = sel + 1
    /\ UNCHANGED <<args, jpg, frm>>
    /\ UNCHANGED Idle

\* lines 801, 858-862
RemoveReturn ==
    /\ pc = "processRemove" /\ sel > Len(args.rmActions)
    /\ Stage(err, "write")
    /\ UNCHANGED <<args, jpg, calls>>
    /\ UNCHANGED Idle

\* lines 864-877: GetActualLengths, then jpg.Write when an output file is asked for
Write ==
    /\ pc = "write"
    /\ IF args.output # <<>>
       THEN \E e \in Outcomes :
               /\ calls' = calls \o << Call("GetActualLengths", 0, <<>>, Nil),
                                       Call("Write", 0, <<args.output>>, e) >>
               /\ Stage(e, "formatComponents")
       ELSE /\ calls' = Append(calls, Call("GetActualLengths", 0, <<>>, Nil))
            /\ Stage(err, "formatComponents")
    /\ UNCHANGED <<args, jpg>>
    /\ UNCHANGED Idle

\* lines 879-895: FormatFrameComponent for components 0, 1, 2 of frame 0
FormatComponent ==
    /\ pc = "formatComponents"
    /\ \E e \in Outcomes :
        /\ calls' = Append(calls, Call("FormatFrameComponent", 0, <<0, frm>>, e))
        /\ err' = e
        /\ pc' = IF e # Nil THEN "exit" ELSE IF frm = 2 THEN "savePicture" ELSE pc
        /\ frm' = IF e = Nil /\ frm < 2 THEN frm + 1 ELSE 0
    /\ UNCHANGED <<args, jpg, sel>>
    /\ UNCHANGED Idle

\* line 905: the orientation of the parsed -spict is the unset one
orientationUnset(sp) == sp.row0 = 0 /\ sp.col0 = 0

\* what GetImageOrientation may return: an error, or the document's orientation
DocOrientations == { <<"nil">>, <<"document">> }

\* lines 903-936: the raw picture is saved when a path was given
SavePicture ==
    /\ pc = "savePicture"
    /\ IF args.sPicture.path = <<>>
       THEN UNCHANGED <<calls, err>>
       ELSE \E e \in Outcomes :
              IF orientationUnset(args.sPicture)
              THEN \E o \in DocOrientations :
                      /\ calls' = calls \o
                           << Call("GetImageOrientation", 0, <<>>,
                                   IF o = <<"nil">> THEN CallErr(Len(calls) + 1) ELSE Nil),
                              Call("SaveRawPicture", 0,
                                   <<args.sPicture.path, args.sPicture.bw, o>>,
                                   IF e = Nil THEN Nil ELSE CallErr(Len(calls) + 2)) >>
                      /\ err' = IF e = Nil THEN Nil ELSE CallErr(Len(calls) + 2)
              ELSE /\ calls' = Append(calls,
                                      Call("SaveRawPicture", 0,
                                           <<args.sPicture.path, args.sPicture.bw,
                                             <<args.sPicture.row0, args.sPicture.col0>> >>,
                                           e))
                   /\ err' = e
    /\ pc' = "exit"
    /\ UNCHANGED <<args, jpg, sel, frm>>
    /\ UNCHANGED Idle

Next ==
    \/ GetArgs \/ Read \/ ProcessTables
    \/ MetaCall \/ MetaReturn
    \/ QuantizationCall \/ QuantizationAdvance \/ QuantizationReturn
    \/ EntropyTableCall \/ EntropyAdvance \/ EntropyReturn
    \/ ScanCall \/ ScanAdvance \/ ScanReturn
    \/ ProcessSave
    \/ RemoveCall \/ RemoveReturn
    \/ Write \/ FormatComponent \/ SavePicture

Spec == Init /\ [][Next]_vars

-----------------------------------------------------------------------------
(* Properties of the parsers *)

Entries(v) == Split(v, ",")
Fields(e) == Split(e, ":")
IntOf(tok) == ParseInt(tok).val
IsInt(tok) == ParseInt(tok).ok

\* the metadata record an entry denotes: its container id and its sub-ids in order
MetaRecordOf(e) ==
    [appId |-> IntOf(Fields(e)[1]),
     sIds  |-> [j \in 1..(Len(Fields(e)) - 1) |-> IntOf(Fields(e)[j + 1])]]

MetaSidsLegal(e, rm) ==
    \A j \in 2..Len(Fields(e)) :
        IsInt(Fields(e)[j]) /\ IntOf(Fields(e)[j]) >= (IF rm THEN 1 ELSE 0)

\* a concrete container id within the bound of the context, with legal sub-ids
MetaEntryConcreteLegal(e, rm) ==
    /\ IsInt(Fields(e)[1])
    /\ IntOf(Fields(e)[1]) \in (IF rm THEN 1..15 ELSE 0..15)
    /\ MetaSidsLegal(e, rm)

MetaEntryIsAll(e) == IsInt(Fields(e)[1]) /\ IntOf(Fields(e)[1]) = ALL

\* C1: when every entry of the value carries valid ids and none is ALL, parseMeta
\* returns one record per comma-separated entry, in input order, each with its
\* sub-ids in input order; `0,1:0:2` for display yields [{0, []}, {1, [0,2]}].
C1_OneRecordPerEntry ==
    (/\ pc = "return" /\ fn = "parseMeta"
     /\ \A i \in 1..Len(Entries(arg)) : MetaEntryConcreteLegal(Entries(arg)[i], remove))
    => /\ ret.err = Nil
       /\ ret.res = [i \in 1..Len(Entries(arg)) |-> MetaRecordOf(Entries(arg)[i])]

\* the entries of a value that count: all of them up to the first ALL entry
MetaLastCounted(v) ==
    IF \E i \in 1..Len(Entries(v)) : MetaEntryIsAll(Entries(v)[i])
    THEN CHOOSE i \in 1..Len(Entries(v)) :
            /\ MetaEntryIsAll(Entries(v)[i])
            /\ \A j \in 1..(i - 1) : ~MetaEntryIsAll(Entries(v)[j])
    ELSE Len(Entries(v))

MetaValueLegal(v, rm) ==
    \A i \in 1..MetaLastCounted(v) :
        MetaEntryIsAll(Entries(v)[i]) \/ MetaEntryConcreteLegal(Entries(v)[i], rm)

\* C4: the legality bound of parseMeta depends on the context: container id 0 is
\* accepted for display (yielding {0, []}) and rejected for removal, ids 1..15 and
\* -1 are accepted in both, ids above 15 or below -1 are rejected in both, and a
\* sub-id below lowBound (0 for display, 1 for removal) makes the parse fail.
C4_LegalityBound ==
    (pc = "return" /\ fn = "parseMeta")
    => /\ (ret.err = Nil) <=> MetaValueLegal(arg, remove)
       /\ (arg = <<"0">> /\ ~remove) => ret.res = <<[appId |-> 0, sIds |-> <<>>]>>

\* C5: when the loop of parseMeta reaches an entry whose container id is -1, it
\* returns at once, successfully, with the records of the entries before it in
\* order followed by {-1, []}; the entries after it are not looked at, and
\* `-1,3` yields exactly [{-1, []}].
C5_FirstAllWins ==
    [][ /\ (/\ pc = "parseMeta" /\ ~loc.done /\ loc.i <= Len(Entries(arg))
            /\ MetaEntryIsAll(Entries(arg)[loc.i]))
           => /\ loc'.done /\ loc'.err = Nil
              /\ loc'.res = [j \in 1..loc.i |->
                                IF j < loc.i THEN MetaRecordOf(Entries(arg)[j])
                                ELSE [appId |-> ALL, sIds |-> <<>>]]
        /\ (pc' = "return" /\ arg = <<"-", "1", ",", "3">>)
           => ret' = [res |-> <<[appId |-> ALL, sIds |-> <<>>]>>, err |-> Nil]
      ]_vars

\* an ALL entry was reached after another entry and before a third one
C5_Witness ==
    /\ pc = "return" /\ fn = "parseMeta" /\ ret.err = Nil
    /\ Len(ret.res) >= 2
    /\ ret.res[Len(ret.res)] = [appId |-> ALL, sIds |-> <<>>]
    /\ Len(Entries(arg)) > Len(ret.res)

\* an -en entry without its mode letter
StripMode(e) == IF e # <<>> /\ e[Len(e)] \in {"s", "x", "b"} THEN SubSeq(e, 1, Len(e) - 1) ELSE e

\* an entry with a specific class and the wildcard destination, or the reverse
EntropyMixed(e) ==
    LET f == Fields(StripMode(e))
    IN  /\ Len(f) >= 2
        /\ \/ f[1] \in {<<"D", "C">>, <<"A", "C">>} /\ f[2] = <<"*">>
           \/ f[1] = <<"*">> /\ f[2] # <<"*">>

C3_DocumentedExample ==
    (pc = "return" /\ fn = "parseEntropy"
     /\ arg = <<"D", "C", ":", "1", "x", ",", "A", "C", ":", "*">>)
    => ret = [res |-> << [class |-> 0, dest |-> 1, frame |-> 0, mode |-> Extra],
                         [class |-> 1, dest |-> ALL, frame |-> 0, mode |-> Standard] >>,
              err |-> Nil]

SthumbEntryOk(e) ==
    /\ Len(Fields(e)) = 2
    /\ IsInt(Fields(e)[1]) /\ IntOf(Fields(e)[1]) \in {0, 1}

\* C10: parseSthumb succeeds exactly when every entry has two ':'-separated fields
\* the first of which is an integer in {0,1}; it then returns one {path, id}
\* record per entry in input order, and otherwise returns no list.
C10_SthumbAccepts ==
    (pc = "return" /\ fn = "parseSthumb")
    => /\ (ret.err = Nil) <=> \A i \in 1..Len(Entries(arg)) : SthumbEntryOk(Entries(arg)[i])
       /\ ret.err = Nil =>
            ret.res = [i \in 1..Len(Entries(arg)) |->
                          [Path |-> Fields(Entries(arg)[i])[2],
                           ThId |-> IntOf(Fields(Entries(arg)[i])[1])]]
       /\ ret.err # Nil => ret.res = <<>>

\* two thumbnails with different ids were accepted
C10_Witness ==
    /\ pc = "return" /\ fn = "parseSthumb" /\ ret.err = Nil
    /\ Len(ret.res) = 2 /\ ret.res[1].ThId = 1 /\ ret.res[2].ThId = 0

-----------------------------------------------------------------------------
(* Properties of the dispatch drivers and of main *)

\* the calls made so far by one table driver, and by the two metadata drivers
TableCalls(kind) ==
    SelectSeq(calls, LAMBDA c : c.op = "FormatEncodingTable" /\ c.a[2] = kind)
OpCalls(op) == SelectSeq(calls, LAMBDA c : c.op = op)
ArgsOf(cs) == [k \in 1..Len(cs) |-> cs[k].a]

\* main is at a stage that follows the given one, so the driver returned no error
After(stage) ==
    LET order == <<"processTables", "processMeta", "processQuantization", "processEntropy",
                   "processScan", "processSave", "processRemove", "write",
                   "formatComponents", "savePicture">>
    IN  \E i, j \in 1..Len(order) : order[i] = stage /\ order[j] = pc /\ i < j

\* the calls a selector stands for: one per frame 0..frameCount-1 when its frame
\* is ALL, one with its own frame otherwise, all with destination d and its mode
ExpandSelector(t, kind, d) ==
    IF t.frame = ALL
    THEN [f \in 1..jpg.nFrames |-> <<f - 1, kind, d, t.mode>>]
    ELSE << <<t.frame, kind, d, t.mode>> >>

RECURSIVE ExpandList(_, _, _)
ExpandList(tables, kind, dests) ==
    IF tables = <<>> THEN <<>>
    ELSE ExpandSelector(Head(tables), kind, Head(dests))
         \o ExpandList(Tail(tables), kind, Tail(dests))

\* the destination field of each selector, and the flattened entropy destination
OwnDests(tables) == [i \in 1..Len(tables) |-> tables[i].dest]
OwnIndexes(tables) == [i \in 1..Len(tables) |-> tables[i].index]
FlatDests(tables) ==
    [i \in 1..Len(tables) |->
        IF tables[i].class = ALL THEN ALL
        ELSE IF tables[i].class = 1 THEN 4 + tables[i].dest
        ELSE tables[i].dest]

\* C6 as stated: once a table driver has returned without failure, each of its
\* selectors has produced frameCount calls with frames 0..frameCount-1 in
\* increasing order when its frame is ALL, and one call with its frame otherwise,
\* each carrying the selector's own destination/index and mode.
C6_Original ==
    /\ After("processQuantization") =>
         ArgsOf(TableCalls("Quantization"))
            = ExpandList(args.quTables, "Quantization", OwnDests(args.quTables))
    /\ After("processEntropy") =>
         ArgsOf(TableCalls("Entropy"))
            = ExpandList(args.enTables, "Entropy", OwnDests(args.enTables))
    /\ After("processScan") =>
         ArgsOf(TableCalls("Scan"))
            = ExpandList(args.scTables, "Scan", OwnIndexes(args.scTables))

\* C6 as amended: the same, except that processEntropy passes class*4+destination
\* for a selector with a concrete class and -1 for a selector with class ALL.
C6_FrameExpansion ==
    /\ After("processQuantization") =>
         ArgsOf(TableCalls("Quantization"))
            = ExpandList(args.quTables, "Quantization", OwnDests(args.quTables))
    /\ After("processEntropy") =>
         ArgsOf(TableCalls("Entropy"))
            = ExpandList(args.enTables, "Entropy", FlatDests(args.enTables))
    /\ After("processScan") =>
         ArgsOf(TableCalls("Scan"))
            = ExpandList(args.scTables, "Scan", OwnIndexes(args.scTables))

\* the three table drivers have each expanded an ALL-frame selector over 3 frames
\* (-qu=*:*b gave frames 0, 1, 2 with destination ALL and mode Both) and made one
\* call for a selector with a frame
C6_Witness ==
    /\ pc = "processSave" /\ jpg.nFrames = 3
    /\ ArgsOf(TableCalls("Quantization"))
         = << <<0, "Quantization", ALL, Both>>, <<1, "Quantization", ALL, Both>>,
              <<2, "Quantization", ALL, Both>>, <<0, "Quantization", 1, Standard>> >>
    /\ Len(TableCalls("Entropy")) = 4
    /\ Len(TableCalls("Scan")) = 4

DriverOps == {"FormatMetadata", "FormatEncodingTable", "RemoveMetadata"}
SameDriver(c, d) ==
    /\ c.op = d.op
    /\ c.op = "FormatEncodingTable" => c.a[2] = d.a[2]

\* C7: once a call made by a driver has returned an error, that driver makes no
\* other call, main holds exactly that error, and the calls made before stay made.
C7_FailFast ==
    [][ /\ Len(calls') >= Len(calls) /\ SubSeq(calls', 1, Len(calls)) = calls
        /\ \A k \in 1..Len(calls') :
              (calls'[k].op \in DriverOps /\ calls'[k].err # Nil)
              => /\ \A l \in (k + 1)..Len(calls') : ~SameDriver(calls'[k], calls'[l])
                 /\ pc' = "exit"
                 /\ err' = calls'[k].err
      ]_vars

\* the second call of a three-frame expansion failed: the first one stays, the
\* third one is not made
C7_Witness ==
    /\ pc = "exit" /\ jpg.nFrames = 3 /\ Len(calls) >= 2
    /\ LET c == calls[Len(calls)]
           b == calls[Len(calls) - 1]
       IN  /\ c.op = "FormatEncodingTable" /\ c.err # Nil /\ c.a[1] = 1
           /\ b.op = "FormatEncodingTable" /\ b.err = Nil /\ b.a[1] = 0
           /\ b.sel = c.sel /\ b.a[2] = c.a[2]
    /\ err = calls[Len(calls)].err

\* the list of selectors a call was issued from
ListOf(c) ==
    IF c.op = "FormatMetadata" THEN args.meta
    ELSE IF c.op = "RemoveMetadata" THEN args.rmActions
    ELSE IF c.a[2] = "Quantization" THEN args.quTables
    ELSE IF c.a[2] = "Entropy" THEN args.enTables
    ELSE args.scTables

\* C8: within one driver the calls issued for a selector come before the calls
\* issued for the selectors after it; the calls of one ALL-frame selector come in
\* strictly increasing frame, and a selector with a frame gets a single call;
\* processRemove makes one RemoveMetadata(appId, sIds) call per selector, in order.
C8_DispatchOrder ==
    /\ \A k, l \in 1..Len(calls) :
          (k < l /\ calls[k].op \in DriverOps /\ SameDriver(calls[k], calls[l]))
          => /\ calls[k].sel <= calls[l].sel
             /\ calls[k].sel = calls[l].sel
                => /\ calls[k].op = "FormatEncodingTable"
                   /\ ListOf(calls[k])[calls[k].sel].frame = ALL
                   /\ calls[k].a[1] < calls[l].a[1]
    /\ LET R == OpCalls("RemoveMetadata")
       IN  /\ Len(R) <= Len(args.rmActions)
           /\ \A j \in 1..Len(R) :
                 /\ R[j].sel = j
                 /\ R[j].a = <<args.rmActions[j].appId, args.rmActions[j].sIds>>
           /\ After("processRemove") => Len(R) = Len(args.rmActions)

\* processScan went through three frames of its first selector and then called
\* for its second one, and processRemove called once for each of two selectors
C8_Witness ==
    /\ pc = "write" /\ jpg.nFrames = 3
    /\ Len(TableCalls("Scan")) = 4
    /\ TableCalls("Scan")[3].sel = 1 /\ TableCalls("Scan")[4].sel = 2
    /\ Len(OpCalls("RemoveMetadata")) = 2

\* a selector option is given and its parser returns an error
AnyOptionFails(f) ==
    \/ f.meta # <<>> /\ parseMeta(f.meta, FALSE).err # Nil
    \/ f.entropy # <<>> /\ parseEntropy(f.entropy).err # Nil
    \/ f.quantizer # <<>> /\ parseQuantization(f.quantizer).err # Nil
    \/ f.scan # <<>> /\ parseScan(f.scan).err # Nil
    \/ f.remove # <<>> /\ parseMeta(f.remove, TRUE).err # Nil
    \/ f.sthumb # <<>> /\ parseSthumb(f.sthumb).err # Nil
    \/ f.spict # <<>> /\ parseSpict(f.spict).err # Nil

\* C9: when one of -meta, -en, -qu, -sc, -rmeta, -sthumb, -spict fails to parse,
\* the program stops without calling jpeg.Read nor any formatting, removal, save
\* or write operation.
C9_ParseBeforeLoad ==
    (pc # "getArgs" /\ AnyOptionFails(flags))
    => pc = "exit" /\ calls = <<>> /\ jpg = NoJpg

\* -spict, the last option looked at, failed after the others had parsed
C9_Witness ==
    /\ pc = "exit" /\ ~exitsEarly(flags) /\ err # Nil /\ calls = <<>>
    /\ flags.meta # <<>> /\ flags.sthumb # <<>>
    /\ parseSpict(flags.spict).err # Nil
    /\ parseMeta(flags.meta, FALSE).err = Nil /\ parseSthumb(flags.sthumb).err = Nil

-----------------------------------------------------------------------------
(* Properties of parseSpict *)

CountOf(s, c) == Cardinality({i \in 1..Len(s) : s[i] = c})
FirstPos(s, c) == CHOOSE i \in 1..Len(s) : s[i] = c /\ \A j \in 1..(i - 1) : s[j] # c
UpTo(s, c) == SubSeq(s, 1, FirstPos(s, c) - 1)
Beyond(s, c) == SubSeq(s, FirstPos(s, c) + 1, Len(s))

\* the side a letter of an orientation name stands for
SideOfLetter(ch) ==
    CASE ch = "L" -> Left [] ch = "T" -> Top [] ch = "R" -> Right [] ch = "B" -> Bottom

\* what a -spict value with exactly one ':' must parse to: [fails, res]
SpictExpected(v) ==
    LET prefix == UpTo(v, ":")
        k      == CountOf(prefix, ",")
        first  == IF k = 0 THEN prefix ELSE UpTo(prefix, ",")
        second == Beyond(prefix, ",")
        fails  == \/ k > 1
                  \/ first # <<>> /\ first \notin OrientationNames
                  \/ k = 1 /\ second \notin { <<"B", "W">>, <<"R", "G", "B">> }
    IN  [fails |-> fails,
         res   |-> [row0 |-> IF first \in OrientationNames
                             THEN SideOfLetter(first[1]) ELSE 0,
                    col0 |-> IF first \in OrientationNames
                             THEN SideOfLetter(first[2]) ELSE 0,
                    bw   |-> k = 1 /\ second = <<"B", "W">>,
                    path |-> Beyond(v, ":")]]

\* C11: parseSpict returns the whole value as the path, with the orientation
\* unset and monochrome false, when the value has no ':'; with exactly one ':'
\* it returns the part after it as the path, the orientation named by the first
\* ','-separated sub-part of the prefix (unset when that sub-part is empty) and
\* monochrome from the optional second sub-part (BW true, RGB false); it fails
\* exactly when the value has more than one ':', the prefix has more than one
\* ',', or an orientation or format name is not one of the known ones.
C11_SpictContract ==
    (fn = "parseSpict" /\ pc = "return") =>
        LET n == CountOf(arg, ":")
        IN  /\ n = 0 => ret = [res |-> [row0 |-> 0, col0 |-> 0, bw |-> FALSE, path |-> arg],
                               err |-> Nil]
            /\ n > 1 => ret.err # Nil
            /\ n = 1 => IF SpictExpected(arg).fails
                        THEN ret.err # Nil
                        ELSE ret.err = Nil /\ ret.res = SpictExpected(arg).res

\* -spict=TL,BW:p has been parsed to row 0 at the top, column 0 at the left,
\* monochrome, path p
C11_Witness ==
    /\ fn = "parseSpict" /\ pc = "return"
    /\ arg = <<"T", "L", ",", "B", "W", ":", "p">>
    /\ ret = [res |-> [row0 |-> Top, col0 |-> Left, bw |-> TRUE, path |-> <<"p">>],
              err |-> Nil]

-----------------------------------------------------------------------------
(* Properties of the errors of the selector parsers *)

SelectorParsers == {"parseMeta", "parseEntropy", "parseQuantization", "parseScan"}
SelectorParsed == fn \in SelectorParsers /\ pc = "return"

\* the errors that reject one token
IdFormats == {"invalid Id: %s\n"}
DestFormats ==
    {"invalid Scan table index: %s\n", "invalid Quantization table destination: %s\n",
     "invalid Entropy table destination: %s\n"}
FrameFormats ==
    {"invalid Scan table frame: %s\n", "invalid Quantization table frame: %s\n",
     "invalid Entropy table frame: %s\n"}
ClassFormats == {"invalid Entropy table class: %s\n"}
TokenFormats == IdFormats \cup DestFormats \cup FrameFormats \cup ClassFormats

\* tok is one of the ':'-separated fields of an entry of the value v
IsFieldOf(tok, v) ==
    \E i \in 1..Len(Entries(v)) :
        LET e  == Entries(v)[i]
            fs == Fields(IF fn = "parseMeta" THEN e ELSE StripMode(e))
        IN  \E j \in 1..Len(fs) : fs[j] = tok

\* tok is unparsable or outside the bound the error of format f is about
TokenOffends(f, tok) ==
    CASE f \in IdFormats    -> ~IsInt(tok) \/ IntOf(tok) < (IF remove THEN 1 ELSE 0)
                                           \/ IntOf(tok) > 15
      [] f \in DestFormats  -> ~IsInt(tok) \/ IntOf(tok) < 0 \/ IntOf(tok) > 3
      [] f \in FrameFormats -> ~IsInt(tok) \/ IntOf(tok) < 0
      [] f \in ClassFormats -> tok \notin { <<"*">>, <<"D", "C">>, <<"A", "C">> }

\* the error names a field of the value that offends
NamesOffendingToken(e) ==
    \E k \in 1..Len(e.a) : IsFieldOf(e.a[k], arg) /\ TokenOffends(e.fmt, e.a[k])

\* C12: when a selector parser rejects an entry for an unparsable or
\* out-of-bound token, the error names the offending token and the whole
\* original option value.
C12_ErrorNamesTokenAndValue ==
    (SelectorParsed /\ ret.err.fmt \in TokenFormats) =>
        NamesOffendingToken(ret.err) /\ InSeq(arg, ret.err.a)

-----------------------------------------------------------------------------
(* Properties of getModePart and of its use by the parsers *)

ModeLetters == {"s", "x", "b"}
EndsInModeLetter(e) == e # <<>> /\ e[Len(e)] \in ModeLetters

\* the mode an entry asks for
LetterMode(e) ==
    IF ~EndsInModeLetter(e) THEN Standard
    ELSE CASE e[Len(e)] = "s" -> Standard
           [] e[Len(e)] = "x" -> Extra
           [] e[Len(e)] = "b" -> Both

\* getModePart has returned what its contract says
ModePartContract ==
    (fn = "getModePart" /\ pc = "return") =>
        /\ arg = <<>> => ret.err # Nil
        /\ EndsInModeLetter(arg) =>
               ret = [m |-> LetterMode(arg), p |-> SubSeq(arg, 1, Len(arg) - 1), err |-> Nil]
        /\ (arg # <<>> /\ ~EndsInModeLetter(arg)) =>
               ret = [m |-> Standard, p |-> arg, err |-> Nil]

\* the number a field stands for: ALL for "*", 0 for an absent field
FieldValue(fs, k) ==
    IF Len(fs) < k THEN 0 ELSE IF fs[k] = <<"*">> THEN -1 ELSE IntOf(fs[k])

\* the n-th returned record was read from the fields of the n-th entry without
\* its mode letter, and carries the mode of that letter
ReadAfterModePart(n) ==
    LET e  == Entries(arg)[n]
        fs == Fields(StripMode(e))
        r  == ret.res[n]
    IN  /\ r.mode = LetterMode(e)
        /\ fn = "parseQuantization" => r.dest = FieldValue(fs, 1) /\ r.frame = FieldValue(fs, 2)
        /\ fn = "parseScan" => r.index = FieldValue(fs, 1) /\ r.frame = FieldValue(fs, 2)
        /\ fn = "parseEntropy" => r.dest = FieldValue(fs, 2) /\ r.frame = FieldValue(fs, 3)

\* the parser fn has applied getModePart once to each entry, before splitting it:
\* an entry with no character fails the parse, and a successful parse returns
\* one record per entry, read after the mode letter was taken away
AppliesModePart ==
    (fn \in {"parseQuantization", "parseEntropy", "parseScan"} /\ pc = "return") =>
        /\ (\E n \in 1..Len(Entries(arg)) : Entries(arg)[n] = <<>>) => ret.err # Nil
        /\ ret.err = Nil =>
               /\ Len(ret.res) = Len(Entries(arg))
               /\ \A n \in 1..Len(ret.res) : ReadAfterModePart(n)

\* a -meta / -rmeta value made of one token that ends in a mode letter
MetaTokenWithLetter ==
    /\ fn = "parseMeta" /\ pc = "return"
    /\ CountOf(arg, ",") = 0 /\ CountOf(arg, ":") = 0
    /\ EndsInModeLetter(arg)

\* a legal container id
MetaIdLegal(tok) ==
    IsInt(tok) /\ (IntOf(tok) = -1 \/ ((IF remove THEN 1 ELSE 0) <= IntOf(tok) /\ IntOf(tok) <= 15))

\* C13 as stated: getModePart follows its contract, and each of the four
\* selector parsers, parseMeta included, applies it once per entry before
\* splitting on ':', so that parseMeta reads a token such as 1x as the id 1.
C13_Original ==
    /\ ModePartContract
    /\ AppliesModePart
    /\ (MetaTokenWithLetter /\ MetaIdLegal(StripMode(arg))) =>
           ret = [res |-> << [appId |-> IntOf(StripMode(arg)), sIds |-> <<>>] >>, err |-> Nil]

\* C13: for every fragment with at least one character, getModePart returns
\* (Standard, Extra or Both, the fragment without its last character) when that
\* character is s, x or b, and (Standard, the fragment unchanged) otherwise; for
\* the fragment with no character it returns an error.  parseQuantization,
\* parseEntropy and parseScan apply it once per comma-separated entry before
\* splitting on ':'; parseMeta does not apply it, and reads a final s, x or b
\* as part of the token.
C13_ModePart ==
    /\ ModePartContract
    /\ AppliesModePart
    /\ MetaTokenWithLetter =>
           IF MetaIdLegal(arg)
           THEN ret = [res |-> << [appId |-> IntOf(arg), sIds |-> <<>>] >>, err |-> Nil]
           ELSE ret.err # Nil

\* getModePart has taken the x off the fragment 1:x and returned Extra
C13_Witness ==
    /\ fn = "getModePart" /\ pc = "return"
    /\ arg = <<"1", ":", "x">>
    /\ ret = [m |-> Extra, p |-> <<"1", ":">>, err |-> Nil]

-----------------------------------------------------------------------------
(* Properties of the records of parseQuantization and parseScan *)

TableParsed == fn \in {"parseQuantization", "parseScan"} /\ pc = "return"

\* the destination of a quantization record, the index of a scan record
TableDest(r) == IF fn = "parseScan" THEN r.index ELSE r.dest

\* the fields of the n-th entry of the value
TableFields(n) == Fields(StripMode(Entries(arg)[n]))

\* the n-th entry has too many fields, a numeric destination / index outside
\* 0..3, or a negative numeric frame
TableEntryIllegal(n) ==
    LET fs == TableFields(n)
    IN  \/ Len(fs) > 2
        \/ IsInt(fs[1]) /\ (IntOf(fs[1]) < 0 \/ IntOf(fs[1]) > 3)
        \/ Len(fs) >= 2 /\ IsInt(fs[2]) /\ IntOf(fs[2]) < 0

-----------------------------------------------------------------------------
(* Properties of processEntropy *)

\* the positions in the call log of the FormatEncodingTable calls of processEntropy
EntropyCallAt ==
    {k \in 1..Len(calls) : calls[k].op = "FormatEncodingTable" /\ calls[k].a[2] = "Entropy"}

\* the selector a call of processEntropy was issued for
SelectorOf(k) == args.enTables[calls[k].sel]

\* C15: every FormatEncodingTable call processEntropy issues for a selector
\* with a concrete class c and destination d passes the destination c*4 + d,
\* which lies in 0..3 for DC and in 4..7 for AC and differs for different
\* (class, destination) pairs; every call issued for a selector with class ALL
\* passes the destination -1, and the driver issues one call per frame for it,
\* not one per destination.
C15_EntropyFlattening ==
    /\ \A k \in EntropyCallAt :
          LET t == SelectorOf(k)
              d == calls[k].a[3]
          IN  /\ t.class = ALL => d = -1
              /\ t.class # ALL =>
                     /\ t.class \in {0, 1} /\ t.dest \in 0..3
                     /\ d = t.class * 4 + t.dest
                     /\ t.class = 0 => d \in 0..3
                     /\ t.class = 1 => d \in 4..7
    /\ \A k, l \in EntropyCallAt :
          /\ (SelectorOf(k).class # ALL /\ SelectorOf(l).class # ALL
                 /\ calls[k].a[3] = calls[l].a[3]) =>
                (SelectorOf(k).class = SelectorOf(l).class
                   /\ SelectorOf(k).dest = SelectorOf(l).dest)
          /\ (k # l /\ calls[k].sel = calls[l].sel) => calls[k].a[1] # calls[l].a[1]

\* processEntropy has shown the AC table 1 of three frames as destination 5, the
\* DC table 1 of frame 0 as destination 1, and then all tables with destination -1
C15_Witness ==
    /\ pc = "processScan" /\ jpg.nFrames = 3
    /\ ArgsOf(TableCalls("Entropy"))
         = << <<0, "Entropy", 5, Standard>>, <<1, "Entropy", 5, Standard>>,
              <<2, "Entropy", 5, Standard>>, <<0, "Entropy", 1, Both>>,
              <<0, "Entropy", -1, Extra>> >>

-----------------------------------------------------------------------------
(* Properties of main *)

\* jpeg.Read was called and reported an error
ReadFailed == \E k \in 1..Len(calls) : calls[k].op = "Read" /\ calls[k].err # Nil

\* the positions of main at which a resolution or dispatch driver runs
DriverStages ==
    {"processMeta", "processQuantization", "processEntropy", "processScan",
     "processSave", "processRemove"}

\* the operations of the jpeg package a selector drives
SelectorOps == {"FormatMetadata", "FormatEncodingTable", "SaveThumbnail", "RemoveMetadata"}

\* C16: when jpeg.Read reports an error, none of processMeta,
\* processQuantization, processEntropy, processScan, processSave and
\* processRemove is invoked, and no format, remove or save operation driven by a
\* selector takes place.
C16_DriversOnlyAfterLoad ==
    ReadFailed =>
        /\ pc \notin DriverStages
        /\ \A k \in 1..Len(calls) : calls[k].op \notin SelectorOps

\* the rank of the stage of main that makes a call: tables, metadata display,
\* quantization, entropy, scan, thumbnail save, metadata removal, output write,
\* raw picture save; 0 for the calls made outside these stages
StageRank(c) ==
    CASE c.op = "FormatSegments" -> 1
      [] c.op = "FormatMetadata" -> 2
      [] c.op = "FormatEncodingTable" /\ c.a[2] = "Quantization" -> 3
      [] c.op = "FormatEncodingTable" /\ c.a[2] = "Entropy" -> 4
      [] c.op = "FormatEncodingTable" /\ c.a[2] = "Scan" -> 5
      [] c.op = "SaveThumbnail" -> 6
      [] c.op = "RemoveMetadata" -> 7
      [] c.op \in {"GetActualLengths", "Write"} -> 8
      [] c.op \in {"GetImageOrientation", "SaveRawPicture"} -> 9
      [] OTHER -> 0

\* the calls whose error is the error their stage returns
StageResultOps ==
    {"FormatSegments", "FormatMetadata", "FormatEncodingTable", "SaveThumbnail",
     "RemoveMetadata", "Write", "SaveRawPicture"}

\* C17: the stages of main run in the order tables, metadata display,
\* quantization, entropy, scan, thumbnail save, metadata removal, output write,
\* raw picture save; once a stage has returned an error no later stage runs:
\* main has returned, and neither jpg.Write nor SaveRawPicture is called after a
\* failed display, save or removal stage.
C17_StageSequencing ==
    /\ \A k, l \in 1..Len(calls) :
          (k < l /\ StageRank(calls[k]) > 0 /\ StageRank(calls[l]) > 0)
          => StageRank(calls[k]) <= StageRank(calls[l])
    /\ \A k \in 1..Len(calls) :
          (calls[k].op \in StageResultOps /\ calls[k].err # Nil)
          => /\ pc = "exit"
             /\ \A l \in (k + 1)..Len(calls) : StageRank(calls[l]) = 0
             /\ StageRank(calls[k]) < 8 =>
                   \A l \in 1..Len(calls) : calls[l].op \notin {"Write", "SaveRawPicture"}

\* main has gone through its nine stages, each of which made a call
C17_Witness ==
    /\ pc = "exit" /\ err = Nil
    /\ \A r \in 1..9 : \E k \in 1..Len(calls) : StageRank(calls[k]) = r

-----------------------------------------------------------------------------
(* Properties of the orientation of -spict *)

\* the two sides lie on perpendicular axes
Perpendicular(r, c) == (r \in {Left, Right}) # (c \in {Left, Right})

\* the first ','-separated sub-part of the prefix of a -spict value with one ':'
SpictOrientation(v) ==
    LET prefix == UpTo(v, ":")
    IN  IF CountOf(prefix, ",") = 0 THEN prefix ELSE UpTo(prefix, ",")

\* -spict was given with one of the orientation names, and getArgs has stored it
OrientationGiven ==
    /\ CountOf(flags.spict, ":") = 1
    /\ SpictOrientation(flags.spict) \in OrientationNames
    /\ args.sPicture.path # <<>>

\* getOrientation maps each name to two different, perpendicular sides, to a pair
\* no other name maps to, and parseSpict does not leave such a pair unset
OrientationPairsSound ==
    \A o \in OrientationNames :
        LET g == getOrientation(o)
        IN  /\ g.err = Nil
            /\ g.r # g.c /\ Perpendicular(g.r, g.c)
            /\ ~orientationUnset(parseSpict(o \o <<":", "p">>).res)
            /\ \A q \in OrientationNames \ {o} :
                   <<g.r, g.c>> # <<getOrientation(q).r, getOrientation(q).c>>

\* C18: each of the eight orientation names TL, TR, BR, BL, LT, RT, RB, LB maps
\* to a (row0, col0) pair of two different sides on perpendicular axes, the
\* eight pairs differ from one another, and none is the unset pair (0, 0); so
\* when -spict names an orientation main never asks the document for its
\* orientation and hands the named one to SaveRawPicture.
C18_ExplicitOrientation ==
    /\ OrientationPairsSound
    /\ OrientationGiven =>
          /\ args.sPicture.row0 = SideOfLetter(SpictOrientation(flags.spict)[1])
          /\ args.sPicture.col0 = SideOfLetter(SpictOrientation(flags.spict)[2])
          /\ ~(args.sPicture.row0 = 0 /\ args.sPicture.col0 = 0)
          /\ \A k \in 1..Len(calls) :
                /\ calls[k].op # "GetImageOrientation"
                /\ calls[k].op = "SaveRawPicture" =>
                      calls[k].a[3] = <<args.sPicture.row0, args.sPicture.col0>>

\* -spict=LT,BW:p: the picture has been saved with row 0 at the left and column 0
\* at the top, without a call to GetImageOrientation
C18_Witness ==
    /\ pc = "exit" /\ OrientationGiven
    /\ calls[Len(calls)].op = "SaveRawPicture"
    /\ calls[Len(calls)].a = << <<"p">>, TRUE, <<Left, Top>> >>
    /\ \A k \in 1..Len(calls) : calls[k].op # "GetImageOrientation"

====
